---- MODULE Spec2Model ----
(***************************************************************************)
(* Model of the stepper motor engine of src/lib/stepper.hpp (struct        *)
(* stepper): the motion state, the precision scaler (shift_down/shift_up), *)
(* the ramp table (acceleration), the state machine touched by             *)
(* target_speed/on/off, and the step sequencer step().                     *)
(*                                                                         *)
(* delay_t is uint32_t.  A 32 bit unsigned value v is kept as the pair     *)
(* <<v \div 2^31, v % 2^31>> (top bit, low 31 bits), so that left shifts   *)
(* discard high bits exactly as the code does.                             *)
(***************************************************************************)
EXTENDS Integers, Sequences, FiniteSets, TLC

(* ---------------------------- driver constants ------------------------- *)

STEPPER_ENABLE == 0

ENABLE_US == 1

MICRO_LEVELS == 6

(* SHIFT_THRESHOLD is (1 << 30). *)
SHIFT_THRESHOLD == 1073741824

(* ------------------------------- bounds -------------------------------- *)

(* Positions given to target_pos and calibrate_position: 0..MaxPos.        *)
MaxPos == 1

(* Values read from the clock by on() and off(): 0..MaxNow.                *)
MaxNow == 0

Positions == 0..MaxPos

Nows == 0..MaxNow

(* ------------------------- uint32_t arithmetic ------------------------- *)

U(n) == <<0, n>>

ULess(a, b) == a[1] < b[1] \/ (a[1] = b[1] /\ a[2] < b[2])

UMax(a, b) == IF ULess(a, b) THEN b ELSE a

(* x << 1 on uint32_t: bit 31 is lost, bit 30 becomes bit 31. *)
Shl1(a) == <<(a[2] \div SHIFT_THRESHOLD) % 2, (a[2] % SHIFT_THRESHOLD) * 2>>

RECURSIVE Shl(_, _)
Shl(a, n) == IF n = 0 THEN a ELSE Shl(Shl1(a), n - 1)

(* x >> n on uint32_t, 0 <= n <= 31. *)
Shr(a, n) == IF n = 0 THEN a ELSE <<0, a[1] * (2 ^ (31 - n)) + (a[2] \div (2 ^ n))>>

(* -------------------------------- inputs ------------------------------- *)

(* smooth_delay arguments of the constructor. *)
SmoothDelays == {U(0), <<1, 852516352>>}

(* The constructor's acceleration() reads _delay0[_micro] before any write *)
(* to _delay0: an indeterminate uint32_t.                                  *)
UninitValues == {U(0), U(4194307)}

(* float accel arguments, named by their literal. *)
Accels == {"10.0", "4500.0", "1e14"}

(* float speed arguments as rationals <<p, q>> = p/q steps per second. *)
Speeds == {<<10, 1>>, <<5, 1>>, <<1, 1>>, <<100, 1>>, <<2077, 444>>, <<2000000, 1>>}

DEFAULT_ACCEL == "10.0"

DEFAULT_TARGET_SPEED == <<10, 1>>

(* uint32_t(d0 * sqrt(1 << m)) for m = 0..5, d0 = sqrt(1/accel)*0.676*1e6  *)
(* rounded to float.                                                       *)
Delay0Table(accel) ==
    CASE accel = "10.0"   -> [m \in 0..(MICRO_LEVELS - 1) |->
                                U(<<213769, 302316, 427539, 604632, 855079, 1209265>>[m + 1])]
      [] accel = "4500.0" -> [m \in 0..(MICRO_LEVELS - 1) |->
                                U(<<10077, 14251, 20154, 28502, 40308, 57005>>[m + 1])]
      [] accel = "1e14"   -> [m \in 0..(MICRO_LEVELS - 1) |-> U(0)]

(* delay_t(1e6 / speed) *)
TargetDelayOf(speed) == U((1000000 * speed[2]) \div speed[1])

(* -------------------------------- state -------------------------------- *)

VARIABLES
    dir,           \* _dir
    pos,           \* _pos
    target_pos,    \* _target_pos
    accel_steps,   \* _accel_steps
    micro,         \* _micro
    delay0,        \* _delay0[MICRO_LEVELS]
    delay,         \* _delay
    smooth_delay,  \* _smooth_delay
    target_delay,  \* _target_delay
    shift,         \* _shift
    step_,         \* _step
    state,         \* _state
    enable,        \* value last written to the enable pin
    pc,            \* "ready", or "shift_up_loop" inside the while loop of shift_up
    op,            \* the operation called last
    ret,           \* what it returned (-1 for void)
    pre            \* the fields as they were when it was called

vars == <<dir, pos, target_pos, accel_steps, micro, delay0, delay, smooth_delay,
          target_delay, shift, step_, state, enable, pc, op, ret, pre>>

(* The object as one record. *)
Cur == [dir |-> dir, pos |-> pos, target_pos |-> target_pos,
        accel_steps |-> accel_steps, micro |-> micro, delay0 |-> delay0,
        delay |-> delay, smooth_delay |-> smooth_delay,
        target_delay |-> target_delay, shift |-> shift, step_ |-> step_,
        state |-> state, enable |-> enable, pc |-> pc]

Becomes(t) ==
    /\ dir' = t.dir
    /\ pos' = t.pos
    /\ target_pos' = t.target_pos
    /\ accel_steps' = t.accel_steps
    /\ micro' = t.micro
    /\ delay0' = t.delay0
    /\ delay' = t.delay
    /\ smooth_delay' = t.smooth_delay
    /\ target_delay' = t.target_delay
    /\ shift' = t.shift
    /\ step_' = t.step_
    /\ state' = t.state
    /\ enable' = t.enable
    /\ pc' = t.pc

Holds(t) ==
    /\ dir = t.dir
    /\ pos = t.pos
    /\ target_pos = t.target_pos
    /\ accel_steps = t.accel_steps
    /\ micro = t.micro
    /\ delay0 = t.delay0
    /\ delay = t.delay
    /\ smooth_delay = t.smooth_delay
    /\ target_delay = t.target_delay
    /\ shift = t.shift
    /\ step_ = t.step_
    /\ state = t.state
    /\ enable = t.enable
    /\ pc = t.pc

(* ------------------------------ operations ----------------------------- *)

(* is_stopped without the position test. *)
is_stopped_accel_only(s) == s.accel_steps = 0

is_stopped(s) == s.pos = s.target_pos /\ s.accel_steps = 0

(* shift_down that leaves _delay scaled. *)
shift_down_keeps_delay(s) ==
    [s EXCEPT !.delay0 = [i \in 0..(MICRO_LEVELS - 1) |-> Shr(s.delay0[i], s.shift)],
              !.target_delay = Shr(s.target_delay, s.shift),
              !.smooth_delay = Shr(s.smooth_delay, s.shift),
              !.shift = 0]

(* shift_down whose loop over _delay0 stops one entry short. *)
shift_down_short_loop(s) ==
    [s EXCEPT !.delay0 = [i \in 0..(MICRO_LEVELS - 1) |->
                             IF i < MICRO_LEVELS - 1 THEN Shr(s.delay0[i], s.shift)
                             ELSE s.delay0[i]],
              !.delay = Shr(s.delay, s.shift),
              !.target_delay = Shr(s.target_delay, s.shift),
              !.smooth_delay = Shr(s.smooth_delay, s.shift),
              !.shift = 0]

shift_down(s) ==
    [s EXCEPT !.delay0 = [i \in 0..(MICRO_LEVELS - 1) |-> Shr(s.delay0[i], s.shift)],
              !.delay = Shr(s.delay, s.shift),
              !.target_delay = Shr(s.target_delay, s.shift),
              !.smooth_delay = Shr(s.smooth_delay, s.shift),
              !.shift = 0]

(* The loop of shift_up stopping one doubling early. *)
RECURSIVE ShiftFor_half(_, _)
ShiftFor_half(max_delay, sh) ==
    IF ~ULess(max_delay, U(SHIFT_THRESHOLD \div 2)) THEN sh
    ELSE ShiftFor_half(Shl1(max_delay), sh + 1)

(* The loop of shift_up doubling until bit 31 is set. *)
RECURSIVE ShiftFor_extra(_, _)
ShiftFor_extra(max_delay, sh) ==
    IF max_delay[1] = 1 THEN sh
    ELSE ShiftFor_extra(Shl1(max_delay), sh + 1)

(* The while loop of shift_up for max_delay # 0: the number of doublings   *)
(* until max_delay >= SHIFT_THRESHOLD.                                     *)
RECURSIVE ShiftFor(_, _)
ShiftFor(max_delay, sh) ==
    IF ~ULess(max_delay, U(SHIFT_THRESHOLD)) THEN sh
    ELSE ShiftFor(Shl1(max_delay), sh + 1)

(* With max_delay = 0 the loop condition never becomes false: the call     *)
(* stays in the loop (pc = "shift_up_loop", see ShiftUpLoop).              *)
shift_up(s) ==
    IF s.shift # 0 THEN s
    ELSE LET max_delay == UMax(UMax(s.delay0[MICRO_LEVELS - 1], s.target_delay),
                               s.smooth_delay)
         IN  IF max_delay = U(0) THEN [s EXCEPT !.pc = "shift_up_loop"]
             ELSE LET sh == ShiftFor(max_delay, 0)
                  IN  [s EXCEPT !.shift = sh,
                                !.delay0 = [i \in 0..(MICRO_LEVELS - 1) |-> Shl(s.delay0[i], sh)],
                                !.delay = Shl(s.delay, sh),
                                !.target_delay = Shl(s.target_delay, sh),
                                !.smooth_delay = Shl(s.smooth_delay, sh)]

(* calibrate_position that does not shift back up. *)
calibrate_position_no_shift_up(s, p) ==
    IF ~is_stopped(s) THEN s
    ELSE [shift_down(s) EXCEPT !.pos = p]

calibrate_position(s, p) ==
    IF ~is_stopped(s) THEN s
    ELSE shift_up([shift_down(s) EXCEPT !.pos = p])

on(s) == [s EXCEPT !.enable = STEPPER_ENABLE, !.state = "ACCEL"]

(* off() that does nothing while the motor is not stopped. *)
off_guarded(s) ==
    IF ~is_stopped(s) THEN s
    ELSE [s EXCEPT !.enable = 1 - STEPPER_ENABLE,
                   !.accel_steps = 0,
                   !.delay = s.delay0[s.micro],
                   !.state = "OFF"]

off(s) == [s EXCEPT !.enable = 1 - STEPPER_ENABLE,
                    !.accel_steps = 0,
                    !.delay = s.delay0[s.micro],
                    !.state = "OFF"]

acceleration(s, accel) ==
    IF ~is_stopped(s) THEN s
    ELSE LET d == shift_down(s)
             e == [d EXCEPT !.delay = d.delay0[d.micro]]
         IN  shift_up([e EXCEPT !.delay0 = Delay0Table(accel)])

set_target_pos(s, p) == [s EXCEPT !.target_pos = p * (2 ^ s.micro)]

(* target_speed that never selects DECEL. *)
target_speed_always_accel(s, speed) ==
    LET d == shift_down(s)
        e == [d EXCEPT !.target_delay = TargetDelayOf(speed)]
        f == IF ~is_stopped(e) /\ e.state # "OFF"
             THEN [e EXCEPT !.state = "ACCEL"]
             ELSE e
    IN  shift_up(f)

(* target_speed that keeps a deceleration in progress. *)
target_speed_deferred(s, speed) ==
    LET d == shift_down(s)
        e == [d EXCEPT !.target_delay = TargetDelayOf(speed)]
        f == IF ~is_stopped(e) /\ e.state # "OFF"
             THEN [e EXCEPT !.state = IF ULess(e.delay, e.target_delay) \/ e.state = "DECEL"
                                      THEN "DECEL" ELSE "ACCEL"]
             ELSE e
    IN  shift_up(f)

(* target_speed comparing with >= instead of >. *)
target_speed_ge(s, speed) ==
    LET d == shift_down(s)
        e == [d EXCEPT !.target_delay = TargetDelayOf(speed)]
        f == IF ~is_stopped(e) /\ e.state # "OFF"
             THEN [e EXCEPT !.state = IF ~ULess(e.target_delay, e.delay)
                                      THEN "DECEL" ELSE "ACCEL"]
             ELSE e
    IN  shift_up(f)

(* target_speed without the test for OFF. *)
target_speed_ignores_off(s, speed) ==
    LET d == shift_down(s)
        e == [d EXCEPT !.target_delay = TargetDelayOf(speed)]
        f == IF ~is_stopped(e)
             THEN [e EXCEPT !.state = IF ULess(e.delay, e.target_delay)
                                      THEN "DECEL" ELSE "ACCEL"]
             ELSE e
    IN  shift_up(f)

target_speed(s, speed) ==
    LET d == shift_down(s)
        e == [d EXCEPT !.target_delay = TargetDelayOf(speed)]
        f == IF ~is_stopped(e) /\ e.state # "OFF"
             THEN [e EXCEPT !.state = IF ULess(e.delay, e.target_delay)
                                      THEN "DECEL" ELSE "ACCEL"]
             ELSE e
    IN  shift_up(f)

(* step() that takes a step forward. *)
step_moves(s) == [st |-> [s EXCEPT !.pos = s.pos + 1], ret |-> 1]

(* step() is `return 0;`: the object is untouched. *)
step(s) == [st |-> s, ret |-> 0]

(* The member initialisers of the constructor; _delay0 is not initialised. *)
MemberInit(sd, u) ==
    [dir |-> 1, pos |-> 0, target_pos |-> 0, accel_steps |-> 0, micro |-> 0,
     delay0 |-> [i \in 0..(MICRO_LEVELS - 1) |-> u],
     delay |-> U(0), smooth_delay |-> sd, target_delay |-> U(1000000),
     shift |-> 0, step_ |-> 0, state |-> "ACCEL",
     enable |-> 1 - STEPPER_ENABLE, pc |-> "ready"]

stepper(sd, u) ==
    LET a == acceleration(MemberInit(sd, u), DEFAULT_ACCEL)
    IN  IF a.pc # "ready" THEN a ELSE target_speed(a, DEFAULT_TARGET_SPEED)

(* ------------------------------- actions ------------------------------- *)

Init ==
    \E sd \in SmoothDelays, u \in UninitValues :
        /\ Holds(stepper(sd, u))
        /\ op = "stepper"
        /\ ret = -1
        /\ pre = MemberInit(sd, u)

(* A call of operation `name`: the object becomes t, the call returns r    *)
(* (when shift_up does not terminate, t.pc = "shift_up_loop").             *)
Call(name, t, r) ==
    /\ \E after \in {t} : Becomes(after)
    /\ op' = name
    /\ ret' = r
    /\ pre' = Cur

CalibratePosition ==
    /\ pc = "ready"
    /\ \E p \in Positions :
          Call("calibrate_position", calibrate_position(Cur, p), -1)

On ==
    /\ pc = "ready"
    /\ \E now \in Nows : Call("on", on(Cur), now + ENABLE_US + 1)

Off ==
    /\ pc = "ready"
    /\ \E now \in Nows : Call("off", off(Cur), now + ENABLE_US + 1)

Acceleration ==
    /\ pc = "ready"
    /\ \E accel \in Accels :
          Call("acceleration", acceleration(Cur, accel), -1)

TargetPos ==
    /\ pc = "ready"
    /\ \E p \in Positions : Call("target_pos", set_target_pos(Cur, p), -1)

TargetSpeed ==
    /\ pc = "ready"
    /\ \E speed \in Speeds :
          Call("target_speed", target_speed(Cur, speed), -1)

Step ==
    /\ pc = "ready"
    /\ \E r \in {step(Cur)} : Call("step", r.st, r.ret)

(* One more iteration of `while (max_delay < SHIFT_THRESHOLD)` with        *)
(* max_delay = 0: _shift is a uint8_t and max_delay <<= 1 stays 0.         *)
ShiftUpLoop ==
    /\ pc = "shift_up_loop"
    /\ shift' = (shift + 1) % 256
    /\ UNCHANGED <<dir, pos, target_pos, accel_steps, micro, delay0, delay,
                   smooth_delay, target_delay, step_, state, enable, pc, op,
                   ret, pre>>

Next ==
    \/ CalibratePosition
    \/ On
    \/ Off
    \/ Acceleration
    \/ TargetPos
    \/ TargetSpeed
    \/ Step
    \/ ShiftUpLoop

Spec == Init /\ [][Next]_vars

(* ------------- scenario: one move from rest (sections 8, 4.5) ---------- *)

(* Configurations under which shift_up terminates. *)
ValidAccels == {"10.0", "4500.0"}

ValidSpeeds == {<<10, 1>>, <<5, 1>>, <<1, 1>>, <<100, 1>>, <<2077, 444>>}

(* Target distances D # 0 of the move. *)
ArrivalTargets == (1..MaxPos) \cup {1000}

Configuring == op \in {"stepper", "acceleration", "target_speed"}

ArrivalConfigure ==
    /\ Configuring
    /\ \/ \E accel \in ValidAccels :
             Call("acceleration", acceleration(Cur, accel), -1)
       \/ \E speed \in ValidSpeeds :
             Call("target_speed", target_speed(Cur, speed), -1)

ArrivalOn == Configuring /\ On

(* target_pos is called once, right after power on. *)
ArrivalTarget ==
    /\ op = "on"
    /\ \E p \in ArrivalTargets : Call("target_pos", set_target_pos(Cur, p), -1)

(* The scheduler then calls step() again and again. *)
ArrivalStep == op \in {"target_pos", "step"} /\ Step

NextArrival == ArrivalConfigure \/ ArrivalOn \/ ArrivalTarget \/ ArrivalStep

ArrivalSpec == Init /\ [][NextArrival]_vars /\ WF_vars(ArrivalStep)

(* ---------- scenario: target_position is never changed (section 8) ----- *)

NextStill ==
    \/ CalibratePosition
    \/ On
    \/ Off
    \/ Acceleration
    \/ TargetSpeed
    \/ Step
    \/ ShiftUpLoop

StillSpec == Init /\ [][NextStill]_vars

(* ------------------------------ properties ----------------------------- *)

Ready == pc = "ready"

(* Not stopped, when the last operation was called. *)
WasMoving == pre.pos # pre.target_pos \/ pre.accel_steps # 0

(* Unscaled (shifted down) delays before and after the last operation. *)
OldDelay == Shr(pre.delay, pre.shift)

OldTargetDelay == Shr(pre.target_delay, pre.shift)

NewTargetDelay == Shr(target_delay, shift)

(* The last operation was called with the engine powered on and            *)
(* current_delay at the start delay of the microstep level, where off()    *)
(* puts it: the ramp has not begun.                                        *)
WasOnAtStartDelay ==
    /\ pre.enable = STEPPER_ENABLE
    /\ pre.delay = pre.delay0[pre.micro]

(* C1 - Guarded mutation: acceleration(a) and calibrate_position(p) called *)
(* in a state that is not stopped leave every field of the object as it    *)
(* was.                                                                    *)
GuardedMutation ==
    (op \in {"acceleration", "calibrate_position"} /\ WasMoving) => Cur = pre

GuardedMutationWitness ==
    /\ op = "acceleration"
    /\ pre.pos # pre.target_pos
    /\ state # "OFF"
    /\ shift > 0

(* C2 - Arrival: after target_pos(D) from rest with the engine on,         *)
(* repeated step() calls lead to position = target_position with step()    *)
(* returning 0, and position never passes target_position.                 *)
Arrival ==
    /\ (op = "target_pos") ~> (op = "step" /\ ret = 0 /\ pos = target_pos)
    /\ [](pos <= target_pos)

(* C3 as stated - Stillness: while target_position is never changed,       *)
(* every step() returns 0 and position keeps its initial value 0.          *)
StillnessAsStated == (op = "step" => ret = 0) /\ pos = 0

(* C3 amended - Stillness: while target_position is never changed, a       *)
(* step() called with position = target_position at rest returns 0 and     *)
(* leaves position alone, and position changes only in                     *)
(* calibrate_position.                                                     *)
Stillness ==
    /\ (op = "step" /\ ~WasMoving) => (ret = 0 /\ pos = pre.pos)
    /\ pos # pre.pos => op = "calibrate_position"

StillnessWitness ==
    /\ op = "step"
    /\ ~WasMoving
    /\ pre.state # "OFF"
    /\ ret = 0
    /\ pos = target_pos

(* C4 - One step: with the engine powered on and position #                *)
(* target_position, step() moves position by one unit toward               *)
(* target_position and returns a timestamp other than 0; step() returns 0  *)
(* only at target_position at rest.                                        *)
StepTowardTarget ==
    op = "step" =>
        /\ (pre.enable = STEPPER_ENABLE /\ pre.state # "OFF" /\ pre.pos # pre.target_pos)
              => /\ ret # 0
                 /\ pos = IF pre.pos < pre.target_pos THEN pre.pos + 1 ELSE pre.pos - 1
        /\ ret = 0 => ~WasMoving

(* C5 - Trapezoid scenario: acceleration 10, target speed 10, target 1000  *)
(* from position 0 at rest: the phases ACCEL, TARGET_SPEED, DECEL follow   *)
(* each other, accel_steps rises above 0, and the move ends stopped at     *)
(* position 1000 with accel_steps = 0.                                     *)
Trapezoid ==
    LET Scenario == /\ op = "target_pos"
                    /\ pos = 0
                    /\ target_pos = 1000
                    /\ Shr(delay0[0], shift) = Delay0Table("10.0")[0]
                    /\ NewTargetDelay = TargetDelayOf(<<10, 1>>)
    IN  /\ [](Scenario => state = "ACCEL")
        /\ Scenario ~> (state = "TARGET_SPEED" /\ accel_steps > 0)
        /\ (target_pos = 1000 /\ state = "TARGET_SPEED") ~> (state = "DECEL")
        /\ Scenario ~> (pos = 1000 /\ accel_steps = 0 /\ op = "step" /\ ret = 0)
        /\ [](target_pos = 1000 /\ pos = 1000 => accel_steps = 0)

(* C6 as stated - target_speed(s) with s below the current target speed,   *)
(* called while moving in phase ACCEL or TARGET_SPEED, leaves the phase    *)
(* DECEL.  (Stated for an engine that is powered on with current_delay at  *)
(* the start delay; it is violated there already.)                         *)
SpeedDecreaseAsStated ==
    (/\ op = "target_speed"
     /\ Ready
     /\ WasMoving
     /\ WasOnAtStartDelay
     /\ pre.state \in {"ACCEL", "TARGET_SPEED"}
     /\ ULess(OldTargetDelay, NewTargetDelay))
        => state = "DECEL"

(* C6 amended - target_speed(s) with s below the current target speed and  *)
(* below the current speed (the new target_delay exceeds current_delay,    *)
(* both unscaled), called while moving in phase ACCEL or TARGET_SPEED,     *)
(* leaves the phase DECEL.                                                 *)
SpeedDecrease ==
    (/\ op = "target_speed"
     /\ Ready
     /\ WasMoving
     /\ pre.state \in {"ACCEL", "TARGET_SPEED"}
     /\ ULess(OldTargetDelay, NewTargetDelay)
     /\ ULess(OldDelay, NewTargetDelay))
        => state = "DECEL"

SpeedDecreaseWitness ==
    /\ op = "target_speed"
    /\ Ready
    /\ WasMoving
    /\ pre.state = "ACCEL"
    /\ OldDelay = Delay0Table("10.0")[0]
    /\ ULess(OldTargetDelay, NewTargetDelay)
    /\ ULess(OldDelay, NewTargetDelay)
    /\ state = "DECEL"

(* C7 as stated - target_speed(s) with s above the current target speed,   *)
(* called in phase DECEL while not stopped, leaves the phase DECEL.        *)
(* (Stated for an engine that is powered on with current_delay at the      *)
(* start delay; it is violated there already.)                             *)
SpeedIncreaseDeferredAsStated ==
    (/\ op = "target_speed"
     /\ Ready
     /\ WasMoving
     /\ WasOnAtStartDelay
     /\ pre.state = "DECEL"
     /\ ULess(NewTargetDelay, OldTargetDelay))
        => state = "DECEL"

(* C7 amended - target_speed(s) with s above the current target speed,     *)
(* called in phase DECEL while not stopped, leaves the phase DECEL exactly *)
(* when the new target_delay still exceeds current_delay (both unscaled);  *)
(* otherwise the phase becomes ACCEL.                                      *)
SpeedIncreaseInDecel ==
    (/\ op = "target_speed"
     /\ Ready
     /\ WasMoving
     /\ pre.state = "DECEL"
     /\ ULess(NewTargetDelay, OldTargetDelay))
        => /\ state \in {"DECEL", "ACCEL"}
           /\ state = "DECEL" <=> ULess(OldDelay, NewTargetDelay)

SpeedIncreaseInDecelWitness ==
    /\ op = "target_speed"
    /\ Ready
    /\ WasMoving
    /\ pre.state = "DECEL"
    /\ ULess(NewTargetDelay, OldTargetDelay)
    /\ ~ULess(OldDelay, NewTargetDelay)
    /\ OldDelay # U(0)
    /\ state = "ACCEL"

(* C8 as stated - target_speed(s) called while moving with the new         *)
(* target_delay equal to current_delay (both unscaled) leaves the phase    *)
(* TARGET_SPEED; and phase TARGET_SPEED implies current_delay =            *)
(* target_delay.  (Stated for an engine that is powered on with            *)
(* current_delay at the start delay; it is violated there already.)        *)
CruiseEntryAsStated ==
    /\ (/\ op = "target_speed"
        /\ Ready
        /\ WasMoving
        /\ WasOnAtStartDelay
        /\ pre.state # "OFF"
        /\ NewTargetDelay = OldDelay)
           => state = "TARGET_SPEED"
    /\ state = "TARGET_SPEED" => delay = target_delay

(* C8 amended - target_speed(s) called while moving with the new           *)
(* target_delay equal to current_delay (both unscaled) leaves the phase    *)
(* ACCEL; and phase TARGET_SPEED implies current_delay = target_delay.     *)
CruiseEntry ==
    /\ (/\ op = "target_speed"
        /\ Ready
        /\ WasMoving
        /\ pre.state # "OFF"
        /\ NewTargetDelay = OldDelay)
           => state = "ACCEL"
    /\ state = "TARGET_SPEED" => delay = target_delay

CruiseEntryWitness ==
    /\ op = "target_speed"
    /\ Ready
    /\ WasMoving
    /\ pre.state # "OFF"
    /\ NewTargetDelay = OldDelay
    /\ OldDelay = Delay0Table("10.0")[0]
    /\ state = "ACCEL"

(* The largest of start_delay[5], target_delay and smooth_delay. *)
MaxDelay == UMax(UMax(delay0[MICRO_LEVELS - 1], target_delay), smooth_delay)

(* C9 as stated - Delay bound: after the constructor or any operation has  *)
(* completed, start_delay[0..5], current_delay, target_delay and           *)
(* smooth_delay are all strictly below SHIFT_THRESHOLD.                    *)
DelayBoundAsStated ==
    Ready =>
        /\ \A m \in 0..(MICRO_LEVELS - 1) : ULess(delay0[m], U(SHIFT_THRESHOLD))
        /\ ULess(delay, U(SHIFT_THRESHOLD))
        /\ ULess(target_delay, U(SHIFT_THRESHOLD))
        /\ ULess(smooth_delay, U(SHIFT_THRESHOLD))

(* C9 amended - Delay bound: after the constructor or any operation has    *)
(* completed, the largest of start_delay[5], target_delay and smooth_delay *)
(* is at least SHIFT_THRESHOLD, and when the delays are scaled (shift > 0) *)
(* start_delay[0..5], target_delay and smooth_delay are all strictly below *)
(* 2 * SHIFT_THRESHOLD = 2^31.                                             *)
DelayBound ==
    Ready =>
        /\ ~ULess(MaxDelay, U(SHIFT_THRESHOLD))
        /\ shift > 0 =>
              /\ \A m \in 0..(MICRO_LEVELS - 1) : delay0[m][1] = 0
              /\ target_delay[1] = 0
              /\ smooth_delay[1] = 0

DelayBoundWitness ==
    /\ Ready
    /\ op = "acceleration"
    /\ ~WasMoving
    /\ shift > 10
    /\ ~ULess(MaxDelay, U(SHIFT_THRESHOLD))
    /\ MaxDelay[1] = 0

(* C10 - Round trip: in every state in which no call is in progress,       *)
(* shift_down() followed by shift_up() gives back shift and every delay    *)
(* field; in particular calibrate_position in a stopped state, which       *)
(* changes nothing else between the two, leaves them as they were.         *)
ShiftRoundTrip ==
    Ready =>
        /\ shift_up(shift_down(Cur)) = Cur
        /\ (op = "calibrate_position" /\ ~WasMoving) =>
              /\ shift = pre.shift
              /\ delay0 = pre.delay0
              /\ delay = pre.delay
              /\ target_delay = pre.target_delay
              /\ smooth_delay = pre.smooth_delay

ShiftRoundTripWitness ==
    /\ Ready
    /\ op = "calibrate_position"
    /\ ~WasMoving
    /\ shift > 0
    /\ delay # U(0)
    /\ delay # delay0[micro]

(* C11 - Initial phase: after construction, before the first on(), the     *)
(* driver is disabled and the phase is OFF.                                *)
InitialPhase ==
    op = "stepper" => (enable = 1 - STEPPER_ENABLE /\ state = "OFF")

(* C12 - OFF is left only by power on: an operation called in phase OFF    *)
(* leaves the phase OFF, except on(), which leaves it ACCEL.               *)
OffLeftOnlyByOn ==
    (op # "stepper" /\ pre.state = "OFF") =>
        state = IF op = "on" THEN "ACCEL" ELSE "OFF"

OffLeftOnlyByOnWitness ==
    /\ op = "target_speed"
    /\ pre.state = "OFF"
    /\ WasMoving
    /\ Ready
    /\ NewTargetDelay # OldTargetDelay
    /\ state = "OFF"

(* C13 - Termination: every call returns; no call stays in the loop of     *)
(* shift_up.                                                               *)
Terminates == pc = "ready"

(* C14 - Power off is unguarded: after off(), stopped or not, the phase is *)
(* OFF, accel_steps is 0 and current_delay is start_delay[microstep        *)
(* level]; position, target_position, microstep level, shift,              *)
(* start_delay[*], target_delay and smooth_delay are as before.            *)
PowerOffUnguarded ==
    op = "off" =>
        /\ state = "OFF"
        /\ accel_steps = 0
        /\ delay = delay0[micro]
        /\ pos = pre.pos
        /\ target_pos = pre.target_pos
        /\ micro = pre.micro
        /\ shift = pre.shift
        /\ delay0 = pre.delay0
        /\ target_delay = pre.target_delay
        /\ smooth_delay = pre.smooth_delay

PowerOffUnguardedWitness ==
    /\ op = "off"
    /\ WasMoving
    /\ pre.state = "DECEL"
    /\ pre.delay # delay
    /\ state = "OFF"

(* C15 - Microstep selection: a step() called in phase ACCEL, not stopped, *)
(* below the finest level and with current_delay <= smooth_delay raises    *)
(* the microstep level and rescales position and target_position by the    *)
(* same power of two.  (Stated for an engine that is powered on with       *)
(* current_delay at the start delay; it is violated there already.)        *)
MicrostepSelection ==
    (/\ op = "step"
     /\ pre.state = "ACCEL"
     /\ WasMoving
     /\ WasOnAtStartDelay
     /\ pre.micro < MICRO_LEVELS - 1
     /\ ~ULess(pre.smooth_delay, pre.delay))
        => /\ micro > pre.micro
           /\ pos = pre.pos * (2 ^ (micro - pre.micro))
           /\ target_pos = pre.target_pos * (2 ^ (micro - pre.micro))

(* C16 - Normalised shift: when no call is in progress and the unscaled    *)
(* largest delay M of start_delay[5], target_delay, smooth_delay has       *)
(* 1 <= M < 2^30, then M * 2^shift is the scaled largest delay, it lies in *)
(* [2^30, 2^31), shift is the smallest such exponent and 0 <= shift <= 30. *)
NormalisedShift ==
    LET M == Shr(MaxDelay, shift)
    IN  (Ready /\ ULess(U(0), M) /\ ULess(M, U(SHIFT_THRESHOLD))) =>
            /\ shift \in 0..30
            /\ Shl(M, shift) = MaxDelay
            /\ MaxDelay[1] = 0
            /\ ~ULess(MaxDelay, U(SHIFT_THRESHOLD))
            /\ shift > 0 => ULess(Shl(M, shift - 1), U(SHIFT_THRESHOLD))

NormalisedShiftWitness ==
    /\ Ready
    /\ op = "target_speed"
    /\ shift \in 1..30
    /\ pre.shift \in 1..30
    /\ shift # pre.shift
    /\ MaxDelay = target_delay

(* C17 - target_speed keeps the unscaled values: after target_speed        *)
(* returns, every start_delay[m] and smooth_delay divided by 2^shift is    *)
(* what it was before the call, and position, target_position, accel_steps *)
(* and the microstep level are unchanged.                                  *)
TargetSpeedKeepsUnscaled ==
    (op = "target_speed" /\ Ready) =>
        /\ \A m \in 0..(MICRO_LEVELS - 1) :
              Shr(delay0[m], shift) = Shr(pre.delay0[m], pre.shift)
        /\ Shr(smooth_delay, shift) = Shr(pre.smooth_delay, pre.shift)
        /\ pos = pre.pos
        /\ target_pos = pre.target_pos
        /\ accel_steps = pre.accel_steps
        /\ micro = pre.micro

TargetSpeedKeepsUnscaledWitness ==
    /\ op = "target_speed"
    /\ Ready
    /\ shift > 0
    /\ pre.shift > 0
    /\ shift # pre.shift
    /\ delay0 # pre.delay0

(* C18 - No overflow when scaled: after acceleration() in a stopped state  *)
(* every delay field shifted down again is its unscaled value, that is     *)
(* the left shift of shift_up discarded no high bit: current_delay (whose  *)
(* unscaled value is the start delay of the level before the call), the    *)
(* new start_delay[*], target_delay and smooth_delay.                      *)
NoOverflowWhenScaled ==
    (op = "acceleration" /\ Ready /\ ~WasMoving) =>
        /\ Shr(delay, shift) = Shr(pre.delay0[pre.micro], pre.shift)
        /\ \E accel \in Accels : \A m \in 0..(MICRO_LEVELS - 1) :
              Shr(delay0[m], shift) = Delay0Table(accel)[m]
        /\ NewTargetDelay = OldTargetDelay
        /\ Shr(smooth_delay, shift) = Shr(pre.smooth_delay, pre.shift)

(* C19 - After acceleration() in a stopped state current_delay is the      *)
(* start delay of the microstep level in the new ramp table.               *)
DelayIsNewStartDelay ==
    (op = "acceleration" /\ Ready /\ ~WasMoving) => delay = delay0[micro]

(* C20 - calibrate_position(p) in a stopped state sets position to p and   *)
(* changes nothing else: for the call made last, and for every p it could  *)
(* be called with in a stopped state.                                      *)
CalibrateSetsOnlyPosition ==
    /\ (op = "calibrate_position" /\ ~WasMoving) => Cur = [pre EXCEPT !.pos = pos]
    /\ (Ready /\ pos = target_pos /\ accel_steps = 0) =>
          \A p \in Positions : calibrate_position(Cur, p) = [Cur EXCEPT !.pos = p]

CalibrateSetsOnlyPositionWitness ==
    /\ op = "calibrate_position"
    /\ ~WasMoving
    /\ pos # pre.pos
    /\ shift > 0
    /\ delay # U(0)

====
